---- MODULE Spec2Model ----
(***************************************************************************)
(* labelme/shape.py: the annotation shapes Shape, MultipoinstShape and     *)
(* MaskShape.  One object of one class is under test in each              *)
(* specification; `cls` says which class it is.  Python values are         *)
(* encoded as follows: None is the empty tuple, Some(x) is <<x>>; a point  *)
(* (QPointF) is a pair <<x, y>>; list indices are Python indices           *)
(* (0-based, negative counts from the end).                                *)
(***************************************************************************)
EXTENDS Integers, Sequences, FiniteSets, TLC

VARIABLES
    cls,            \* class of the object under test
    alive,          \* the constructor has returned normally
    shape_type,     \* Shape._shape_type / MultipoinstShape.shape_type
    points,         \* self.points
    labels,         \* MultipoinstShape.labels
    closed,         \* self._closed
    hlIndex,        \* Shape._highlightIndex
    hlMode,         \* Shape._highlightMode
    origin,         \* history: for each entry of points, the is_positive it was added with
    everRepeated,   \* history: some addPoint call repeated points[0]
    err,            \* exception raised by the last call ("" when it returned)
    last,           \* history: the last call and the arguments the properties refer to
    ret,            \* value returned by the last call
    mask,           \* MaskShape.mask
    scale,          \* MaskShape.scale, a rational <<numerator, denominator>>
    rgba_mask,      \* MaskShape.rgba_mask
    everSet,        \* history: setScaleMask has been called
    layout,         \* history: number of holes of each outer contour found in the mask
    contours,       \* toPolygons: result of cv2.findContours, one record per contour
    hierarchy,      \* toPolygons: hierarchy[0], rows <<next, prev, first_child, parent>>
    pc,             \* toPolygons: position in the function
    current_idx,    \* toPolygons local
    child_current_idx, \* toPolygons local
    next_idx,       \* toPolygons local
    contour,        \* toPolygons local: the ring being built
    shapes,         \* toPolygons local: the shapes built so far
    rings           \* history: the ring each entry of shapes was built from

objVars == <<cls, alive, shape_type, points, labels, closed, hlIndex, hlMode>>
histVars == <<origin, everRepeated>>
callVars == <<err, last, ret>>
maskVars == <<mask, scale, rgba_mask, everSet>>
polyVars == <<layout, contours, hierarchy, pc, current_idx, child_current_idx, next_idx, contour, shapes, rings>>
vars == <<objVars, histVars, callVars, maskVars, polyVars>>

----------------------------------------------------------------------------
(* Bounds of the model *)

MaxLen == 4
MaxEps == 2

\* coordinates stay on this grid (moveBy and moveVertexBy are not taken off it)
Grid == {<<0, 0>>, <<1, 0>>, <<0, 1>>, <<1, 1>>}
PointSet == {<<0, 0>>, <<1, 0>>, <<0, 1>>}
LinePoints == {<<0, 0>>, <<1, 0>>}
LineOffsets == {<<1, 0>>, <<0 - 1, 0>>}
OffsetSet == {<<1, 0>>, <<0 - 1, 0>>, <<0, 1>>, <<0 - 1, 1>>}
IdxSet == (0 - 1) .. MaxLen
EdgeIdx == {0, 0 - 1, MaxLen}
EpsSet == (0 - 1) .. MaxEps

----------------------------------------------------------------------------
(* Python values *)

NoneV == <<>>
Some(x) == <<x>>
PyNone == "<None>"

MOVE_VERTEX == 0
NEAR_VERTEX == 1

PAdd(p, q) == <<p[1] + q[1], p[2] + q[2]>>
PSub(p, q) == <<p[1] - q[1], p[2] - q[2]>>

\* Python's index normalisation for list.pop(i) and list[i]
NormIdx(s, i) == IF i < 0 THEN i + Len(s) ELSE i
IdxOk(s, i) == NormIdx(s, i) >= 0 /\ NormIdx(s, i) < Len(s)

\* list.pop(i) for a valid i: the list without its element i
ListPop(s, i) ==
    LET j == NormIdx(s, i) + 1
    IN  SubSeq(s, 1, j - 1) \o SubSeq(s, j + 1, Len(s))

\* list.pop(): the list without its last element
ListPopLast(s) == SubSeq(s, 1, Len(s) - 1)

\* list.insert(i, x): the index is clamped to 0 .. len
ListInsert(s, i, x) ==
    LET k == IF i < 0 THEN i + Len(s) ELSE i
        j == IF k < 0 THEN 0 ELSE IF k > Len(s) THEN Len(s) ELSE k
    IN  SubSeq(s, 1, j) \o <<x>> \o SubSeq(s, j + 1, Len(s))

\* s[i] = x for a valid i
ListSet(s, i, x) == [s EXCEPT ![NormIdx(s, i) + 1] = x]

ListGet(s, i) == s[NormIdx(s, i) + 1]

Call(op, arg) == [op |-> op, arg |-> arg]

----------------------------------------------------------------------------
(* class Shape *)

ValidShapeTypes == {"polygon", "rectangle", "point", "line", "circle", "linestrip"}

KindInputs == ValidShapeTypes \cup {PyNone, "", "Polygon"}

shape_type_setter_assign_first(value) ==
    LET v == IF value = PyNone THEN "polygon" ELSE value
    IN  [raised |-> v \notin ValidShapeTypes, value |-> v]

\* the property setter: the outcome and the value of _shape_type after it
shape_type_setter(value) ==
    LET v == IF value = PyNone THEN "polygon" ELSE value
    IN  IF v \notin ValidShapeTypes
        THEN [raised |-> TRUE, value |-> shape_type]
        ELSE [raised |-> FALSE, value |-> v]

\* Shape(shape_type=value): nothing is constructed when the setter raises
Shape_init(value) ==
    /\ cls = "Shape"
    /\ ~alive
    /\ last' = Call("__init__", <<value>>)
    /\ ret' = NoneV
    /\ LET r == shape_type_setter(value)
       IN  IF r.raised
           THEN /\ err' = "ValueError"
                /\ UNCHANGED <<objVars, histVars>>
           ELSE /\ err' = ""
                /\ alive' = TRUE
                /\ shape_type' = r.value
                /\ points' = <<>>
                /\ closed' = FALSE
                /\ hlIndex' = NoneV
                /\ hlMode' = NEAR_VERTEX
                /\ UNCHANGED <<cls, labels, histVars>>
    /\ UNCHANGED <<maskVars, polyVars>>

\* shape.shape_type = value
Shape_set_shape_type(value) ==
    /\ cls = "Shape"
    /\ alive
    /\ last' = Call("shape_type", <<value>>)
    /\ ret' = NoneV
    /\ LET r == shape_type_setter(value)
       IN  /\ err' = IF r.raised THEN "ValueError" ELSE ""
           /\ shape_type' = r.value
    /\ UNCHANGED <<cls, alive, points, labels, closed, hlIndex, hlMode>>
    /\ UNCHANGED <<histVars, maskVars, polyVars>>

Shape_close ==
    /\ cls = "Shape"
    /\ alive
    /\ last' = Call("close", <<>>)
    /\ ret' = NoneV
    /\ err' = ""
    /\ closed' = TRUE
    /\ UNCHANGED <<cls, alive, shape_type, points, labels, hlIndex, hlMode>>
    /\ UNCHANGED <<histVars, maskVars, polyVars>>

Shape_setOpen ==
    /\ cls = "Shape"
    /\ alive
    /\ last' = Call("setOpen", <<>>)
    /\ ret' = NoneV
    /\ err' = ""
    /\ closed' = FALSE
    /\ UNCHANGED <<cls, alive, shape_type, points, labels, hlIndex, hlMode>>
    /\ UNCHANGED <<histVars, maskVars, polyVars>>

addPointAlwaysAppend(pts, cl, point) ==
    [points |-> Append(pts, point), closed |-> cl]

addPointCloseOnLast(pts, cl, point) ==
    IF pts # <<>> /\ point = pts[Len(pts)]
    THEN [points |-> pts, closed |-> TRUE]
    ELSE [points |-> Append(pts, point), closed |-> cl]

\* Shape.addPoint on a shape with the given points and _closed
addPoint(pts, cl, point) ==
    IF pts # <<>> /\ point = pts[1]
    THEN [points |-> pts, closed |-> TRUE]
    ELSE [points |-> Append(pts, point), closed |-> cl]

Shape_addPoint(point) ==
    /\ cls = "Shape"
    /\ alive
    /\ LET r == addPoint(points, closed, point)
       IN  /\ Len(r.points) <= MaxLen
           /\ points' = r.points
           /\ closed' = r.closed
    /\ everRepeated' = (everRepeated \/ (points # <<>> /\ point = points[1]))
    /\ last' = Call("addPoint", <<point>>)
    /\ ret' = NoneV
    /\ err' = ""
    /\ UNCHANGED <<cls, alive, shape_type, labels, hlIndex, hlMode, origin>>
    /\ UNCHANGED <<maskVars, polyVars>>

canAddPoint == shape_type \in {"polygon", "linestrip"}

Shape_popPoint ==
    /\ cls = "Shape"
    /\ alive
    /\ last' = Call("popPoint", <<>>)
    /\ err' = ""
    /\ IF points # <<>>
       THEN /\ ret' = Some(points[Len(points)])
            /\ points' = ListPopLast(points)
       ELSE /\ ret' = NoneV
            /\ points' = points
    /\ UNCHANGED <<cls, alive, shape_type, labels, closed, hlIndex, hlMode>>
    /\ UNCHANGED <<histVars, maskVars, polyVars>>

Shape_insertPoint(i, point) ==
    /\ cls = "Shape"
    /\ alive
    /\ Len(points) < MaxLen
    /\ last' = Call("insertPoint", <<>>)
    /\ ret' = NoneV
    /\ err' = ""
    /\ points' = ListInsert(points, i, point)
    /\ UNCHANGED <<cls, alive, shape_type, labels, closed, hlIndex, hlMode>>
    /\ UNCHANGED <<histVars, maskVars, polyVars>>

removePointMinOff(n) ==
    \/ ~canAddPoint
    \/ shape_type = "polygon" /\ n < 3
    \/ shape_type = "linestrip" /\ n < 2

\* the three early returns of Shape.removePoint, for len(self.points) = n
removePointRefuses(n) ==
    \/ ~canAddPoint
    \/ shape_type = "polygon" /\ n <= 3
    \/ shape_type = "linestrip" /\ n <= 2

Shape_removePoint(i) ==
    /\ cls = "Shape"
    /\ alive
    /\ last' = Call("removePoint", <<i, Len(points)>>)
    /\ ret' = NoneV
    /\ IF removePointRefuses(Len(points))
       THEN /\ err' = ""
            /\ points' = points
       ELSE IF IdxOk(points, i)
       THEN /\ err' = ""
            /\ points' = ListPop(points, i)
       ELSE /\ err' = "IndexError"
            /\ points' = points
    /\ UNCHANGED <<cls, alive, shape_type, labels, closed, hlIndex, hlMode>>
    /\ UNCHANGED <<histVars, maskVars, polyVars>>

InBounds(pts) == \A k \in 1 .. Len(pts) : pts[k] \in Grid

Shape_moveBy(offset) ==
    /\ cls = "Shape"
    /\ alive
    /\ points' = [k \in 1 .. Len(points) |-> PAdd(points[k], offset)]
    /\ InBounds(points')
    /\ last' = Call("moveBy", <<>>)
    /\ ret' = NoneV
    /\ err' = ""
    /\ UNCHANGED <<cls, alive, shape_type, labels, closed, hlIndex, hlMode>>
    /\ UNCHANGED <<histVars, maskVars, polyVars>>

Shape_moveVertexBy(i, offset) ==
    /\ cls = "Shape"
    /\ alive
    /\ last' = Call("moveVertexBy", <<>>)
    /\ ret' = NoneV
    /\ IF IdxOk(points, i)
       THEN /\ err' = ""
            /\ points' = ListSet(points, i, PAdd(ListGet(points, i), offset))
            /\ InBounds(points')
       ELSE /\ err' = "IndexError"
            /\ points' = points
    /\ UNCHANGED <<cls, alive, shape_type, labels, closed, hlIndex, hlMode>>
    /\ UNCHANGED <<histVars, maskVars, polyVars>>

Shape_highlightVertex(i, action) ==
    /\ cls = "Shape"
    /\ alive
    /\ last' = Call("highlightVertex", <<>>)
    /\ ret' = NoneV
    /\ err' = ""
    /\ hlIndex' = Some(i)
    /\ hlMode' = action
    /\ UNCHANGED <<cls, alive, shape_type, points, labels, closed>>
    /\ UNCHANGED <<histVars, maskVars, polyVars>>

Shape_highlightClear ==
    /\ cls = "Shape"
    /\ alive
    /\ last' = Call("highlightClear", <<>>)
    /\ ret' = NoneV
    /\ err' = ""
    /\ hlIndex' = NoneV
    /\ UNCHANGED <<cls, alive, shape_type, points, labels, closed, hlMode>>
    /\ UNCHANGED <<histVars, maskVars, polyVars>>

----------------------------------------------------------------------------
(* Hit test: nearestVertex.  labelme.utils.distance is the Euclidean norm;   *)
(* a distance is held as its square, which orders distances the same way,    *)
(* and Inf stands for float("inf").                                          *)

Inf == 0 - 1

\* square of labelme.utils.distance(v)
distance(v) == v[1] * v[1] + v[2] * v[2]

\* dist <= epsilon, for a distance held as its square
LeqEps(dist, epsilon) == epsilon >= 0 /\ dist <= epsilon * epsilon

\* dist < min_distance, for distances held as squares
LessDist(dist, min_distance) == min_distance = Inf \/ dist < min_distance

LessEqDist(dist, min_distance) == min_distance = Inf \/ dist <= min_distance

RECURSIVE Shape_nearestVertex_lastmin(_, _, _, _, _, _)
Shape_nearestVertex_lastmin(pts, point, epsilon, k, min_distance, min_i) ==
    IF k > Len(pts)
    THEN min_i
    ELSE LET dist == distance(PSub(pts[k], point))
         IN  IF LeqEps(dist, epsilon) /\ LessEqDist(dist, min_distance)
             THEN Shape_nearestVertex_lastmin(pts, point, epsilon, k + 1, dist, Some(k - 1))
             ELSE Shape_nearestVertex_lastmin(pts, point, epsilon, k + 1, min_distance, min_i)

\* the loop of Shape.nearestVertex from its iteration k - 1 on
RECURSIVE Shape_nearestVertex_loop(_, _, _, _, _, _)
Shape_nearestVertex_loop(pts, point, epsilon, k, min_distance, min_i) ==
    IF k > Len(pts)
    THEN min_i
    ELSE LET dist == distance(PSub(pts[k], point))
         IN  IF LeqEps(dist, epsilon) /\ LessDist(dist, min_distance)
             THEN Shape_nearestVertex_loop(pts, point, epsilon, k + 1, dist, Some(k - 1))
             ELSE Shape_nearestVertex_loop(pts, point, epsilon, k + 1, min_distance, min_i)

Shape_nearestVertex(point, epsilon) ==
    /\ cls = "Shape"
    /\ alive
    /\ last' = Call("nearestVertex", <<point, epsilon>>)
    /\ ret' = Shape_nearestVertex_loop(points, point, epsilon, 1, Inf, NoneV)
    /\ err' = ""
    /\ UNCHANGED <<objVars, histVars, maskVars, polyVars>>

\* the loop of MultipoinstShape.nearestVertex from its iteration k - 1 on
RECURSIVE Multi_nearestVertex_loop(_, _, _, _, _, _)
Multi_nearestVertex_loop(pts, point, epsilon, k, min_distance, min_i) ==
    IF k > Len(pts)
    THEN min_i
    ELSE LET dist == distance(PSub(pts[k], point))
         IN  IF LeqEps(dist, epsilon) /\ LessDist(dist, min_distance)
             THEN Multi_nearestVertex_loop(pts, point, epsilon, k + 1, dist, Some(k - 1))
             ELSE Multi_nearestVertex_loop(pts, point, epsilon, k + 1, min_distance, min_i)

Multi_nearestVertex(point, epsilon) ==
    /\ cls = "MultipoinstShape"
    /\ alive
    /\ last' = Call("nearestVertex", <<point, epsilon>>)
    /\ ret' = Multi_nearestVertex_loop(points, point, epsilon, 1, Inf, NoneV)
    /\ err' = ""
    /\ UNCHANGED <<objVars, histVars, maskVars, polyVars>>

----------------------------------------------------------------------------
(* class MultipoinstShape *)

\* the condition under which MultipoinstShape.addPoint appends
Multi_addPoint_appends(pts, point) == pts = <<>> \/ point # pts[1]

Multi_addPoint(point, is_positive) ==
    /\ cls = "MultipoinstShape"
    /\ alive
    /\ last' = Call("addPoint", <<point, is_positive>>)
    /\ ret' = NoneV
    /\ err' = ""
    /\ IF Multi_addPoint_appends(points, point)
       THEN /\ Len(points) < MaxLen
            /\ points' = Append(points, point)
            /\ labels' = Append(labels, is_positive)
            /\ origin' = Append(origin, is_positive)
       ELSE UNCHANGED <<points, labels, origin>>
    /\ UNCHANGED <<cls, alive, shape_type, closed, hlIndex, hlMode, everRepeated>>
    /\ UNCHANGED <<maskVars, polyVars>>

Multi_popPoint ==
    /\ cls = "MultipoinstShape"
    /\ alive
    /\ last' = Call("popPoint", <<>>)
    /\ err' = ""
    /\ IF points # <<>>
       THEN /\ labels' = ListPopLast(labels)
            /\ ret' = Some(points[Len(points)])
            /\ points' = ListPopLast(points)
            /\ origin' = ListPopLast(origin)
       ELSE /\ ret' = NoneV
            /\ UNCHANGED <<points, labels, origin>>
    /\ UNCHANGED <<cls, alive, shape_type, closed, hlIndex, hlMode, everRepeated>>
    /\ UNCHANGED <<maskVars, polyVars>>

Multi_removePoint_refuses_empty(n) == n < 1

\* the early return of MultipoinstShape.removePoint, for len(self.points) = n
Multi_removePoint_refuses(n) == n <= 1

Multi_removePoint_labels_last(lbls, i) == ListPopLast(lbls)

\* self.labels after self.labels.pop(i), for a valid i
Multi_removePoint_labels(lbls, i) == ListPop(lbls, i)

Multi_removePoint(i) ==
    /\ cls = "MultipoinstShape"
    /\ alive
    /\ last' = Call("removePoint", <<i, Len(points)>>)
    /\ ret' = NoneV
    /\ IF Multi_removePoint_refuses(Len(points))
       THEN /\ err' = ""
            /\ UNCHANGED <<points, labels, origin>>
       ELSE IF IdxOk(labels, i)
       THEN /\ err' = ""
            /\ labels' = Multi_removePoint_labels(labels, i)
            /\ points' = ListPop(points, i)
            /\ origin' = ListPop(origin, i)
       ELSE /\ err' = "IndexError"
            /\ UNCHANGED <<points, labels, origin>>
    /\ UNCHANGED <<cls, alive, shape_type, closed, hlIndex, hlMode, everRepeated>>
    /\ UNCHANGED <<maskVars, polyVars>>

Multi_moveBy(offset) ==
    /\ cls = "MultipoinstShape"
    /\ alive
    /\ points' = [k \in 1 .. Len(points) |-> PAdd(points[k], offset)]
    /\ InBounds(points')
    /\ last' = Call("moveBy", <<>>)
    /\ ret' = NoneV
    /\ err' = ""
    /\ UNCHANGED <<cls, alive, shape_type, labels, closed, hlIndex, hlMode>>
    /\ UNCHANGED <<histVars, maskVars, polyVars>>

Multi_moveVertexBy(i, offset) ==
    /\ cls = "MultipoinstShape"
    /\ alive
    /\ last' = Call("moveVertexBy", <<>>)
    /\ ret' = NoneV
    /\ IF IdxOk(points, i)
       THEN /\ err' = ""
            /\ points' = ListSet(points, i, PAdd(ListGet(points, i), offset))
            /\ InBounds(points')
       ELSE /\ err' = "IndexError"
            /\ points' = points
    /\ UNCHANGED <<cls, alive, shape_type, labels, closed, hlIndex, hlMode>>
    /\ UNCHANGED <<histVars, maskVars, polyVars>>

----------------------------------------------------------------------------
(* class MaskShape.  A mask is a list of rows of 0/1 values; an image is a   *)
(* list of rows of pixels.  scale is <<numerator, denominator>> and divides  *)
(* one, so 1/scale and the coordinates divided by scale are integers.        *)

mask_color == <<0, 0, 255, 64>>
boundary_color == <<0, 0, 255, 128>>
ZeroPixel == <<0, 0, 0, 0>>

Height(img) == Len(img)
Width(img) == Len(img[1])

\* 1 / self.scale
InvScale(sc) == sc[2] \div sc[1]

MaskShape_setScaleMask(sc, m) ==
    /\ cls = "MaskShape"
    /\ scale' = sc
    /\ mask' = m
    /\ everSet' = TRUE
    /\ last' = Call("setScaleMask", <<>>)
    /\ ret' = NoneV
    /\ err' = ""
    /\ UNCHANGED <<rgba_mask, objVars, histVars, polyVars>>

\* (self.mask * 255).astype(np.uint8)
ToUint8(m) == [y \in 1 .. Height(m) |-> [x \in 1 .. Width(m) |-> (m[y][x] * 255) % 256]]

\* cv2.resize(img, None, fx=f, fy=f, interpolation=cv2.INTER_NEAREST), f a whole number
ResizeNearest(img, f) ==
    [y \in 1 .. Height(img) * f |->
        [x \in 1 .. Width(img) * f |-> img[((y - 1) \div f) + 1][((x - 1) \div f) + 1]]]

MinOf(S) == CHOOSE v \in S : \A w \in S : v <= w

\* cv2.erode(img, np.ones([5, 5]), iterations=1): the minimum over the 5x5
\* window, the pixels outside the image not counting
Erode(img) ==
    [y \in 1 .. Height(img) |->
        [x \in 1 .. Width(img) |->
            MinOf({img[v][u] : v \in {w \in (y - 2) .. (y + 2) : w >= 1 /\ w <= Height(img)},
                               u \in {w \in (x - 2) .. (x + 2) : w >= 1 /\ w <= Width(img)}})]]

Zeros(h, w) == [y \in 1 .. h |-> [x \in 1 .. w |-> ZeroPixel]]

\* whether getQImageMask reuses the buffer it holds for an image like img
SameShape(img) ==
    /\ rgba_mask # NoneV
    /\ Height(img) = Height(rgba_mask)
    /\ Width(img) = Width(rgba_mask)

ClearedBufferStale(img) ==
    IF SameShape(img) THEN rgba_mask ELSE Zeros(Height(img), Width(img))

\* self.rgba_mask once it is cleared or allocated anew
ClearedBuffer(img) ==
    IF SameShape(img)
    THEN Zeros(Height(rgba_mask), Width(rgba_mask))
    ELSE Zeros(Height(img), Width(img))

\* self.rgba_mask at the end of getQImageMask, for a mask that is set
Overlay ==
    LET img == ResizeNearest(ToUint8(mask), InvScale(scale))
        base == ClearedBuffer(img)
        eroded == Erode(img)
        bound == [y \in 1 .. Height(img) |->
                    [x \in 1 .. Width(img) |-> (img[y][x] - eroded[y][x]) % 256]]
    IN  [y \in 1 .. Height(img) |->
            [x \in 1 .. Width(img) |->
                IF bound[y][x] > 128 THEN boundary_color
                ELSE IF img[y][x] > 128 THEN mask_color
                ELSE base[y][x]]]

MaskShape_getQImageMask ==
    /\ cls = "MaskShape"
    /\ err' = ""
    /\ IF mask = NoneV
       THEN /\ ret' = NoneV
            /\ rgba_mask' = rgba_mask
            /\ last' = Call("getQImageMask", <<FALSE>>)
       ELSE /\ rgba_mask' = Overlay
            /\ ret' = rgba_mask'
            /\ last' = Call("getQImageMask",
                            <<SameShape(ResizeNearest(ToUint8(mask), InvScale(scale)))>>)
    /\ UNCHANGED <<mask, scale, everSet, objVars, histVars, polyVars>>

----------------------------------------------------------------------------
(* MaskShape.toPolygons.  cv2.findContours and cv2.approxPolyDP are given by *)
(* their results: contours[k] holds the number of points of contour k - 1    *)
(* and the points approxPolyDP reduces it to; hierarchy[k] is its row        *)
(* <<next, previous, first_child, parent>> of hierarchy[0].                  *)

MaxHoles == 2

OuterPool ==
    { [raw |-> 32, approx |-> <<(<<0, 0>>), (<<8, 0>>), (<<8, 8>>), (<<0, 8>>)>>],
      [raw |-> 12, approx |-> <<(<<0, 0>>), (<<4, 0>>), (<<0, 4>>)>>],
      [raw |-> 1, approx |-> <<(<<9, 9>>)>>] }

HolePool ==
    { [raw |-> 8, approx |-> <<(<<2, 2>>), (<<3, 2>>), (<<3, 3>>)>>],
      [raw |-> 12, approx |-> <<(<<5, 5>>), (<<6, 5>>), (<<6, 6>>), (<<5, 6>>)>>],
      [raw |-> 24, approx |-> <<(<<0, 0>>), (<<1, 2>>), (<<2, 1>>)>>] }

ScaleSet == {<<1, 1>>, <<1, 2>>}

\* the numbers of holes of the outer contours: at most two outer contours
Layouts ==
    {<<>>} \cup {<<a>> : a \in 0 .. MaxHoles} \cup {<<a, b>> : a, b \in 0 .. MaxHoles}

RECURSIVE StartOf(_, _)
\* index of outer contour j in contours, one past the last contour for j = Len(lay) + 1
StartOf(lay, j) == IF j = 1 THEN 0 ELSE StartOf(lay, j - 1) + 1 + lay[j - 1]

\* the outer contour that the contour of index idx is or is a hole of
OuterOf(lay, idx) == CHOOSE j \in 1 .. Len(lay) : StartOf(lay, j) <= idx /\ idx < StartOf(lay, j + 1)

\* hierarchy[0] of cv2.findContours(..., cv2.RETR_CCOMP, ...) for the layout
HierarchyOf(lay) ==
    [k \in 1 .. StartOf(lay, Len(lay) + 1) |->
        LET idx == k - 1
            j == OuterOf(lay, idx)
            st == StartOf(lay, j)
        IN  IF idx = st
            THEN << IF j < Len(lay) THEN StartOf(lay, j + 1) ELSE 0 - 1,
                    IF j > 1 THEN StartOf(lay, j - 1) ELSE 0 - 1,
                    IF lay[j] > 0 THEN st + 1 ELSE 0 - 1,
                    0 - 1 >>
            ELSE << IF idx < st + lay[j] THEN idx + 1 ELSE 0 - 1,
                    IF idx > st + 1 THEN idx - 1 ELSE 0 - 1,
                    0 - 1,
                    st >>]

\* contour[:, 0, :] / self.scale
Descale(pts, sc) == [k \in 1 .. Len(pts) |-> <<(pts[k][1] * sc[2]) \div sc[1], (pts[k][2] * sc[2]) \div sc[1]>>]

\* np.concatenate([contour, contour[:1, :]], axis=0)
CloseRing(pts) == pts \o SubSeq(pts, 1, 1)

\* len(child_contour) >= 10 / self.scale
HoleCounts(raw, sc) == raw * sc[1] >= 10 * sc[2]

SpliceAfterFirst(ring, child) == SubSeq(ring, 1, 1) \o child \o SubSeq(ring, 2, Len(ring))

\* np.concatenate([contour[:2, :], child_contour, contour[1:, :]], axis=0)
Splice(ring, child) ==
    SubSeq(ring, 1, IF Len(ring) < 2 THEN Len(ring) ELSE 2) \o child \o SubSeq(ring, 2, Len(ring))

RECURSIVE AddPoints(_, _, _, _)
\* the loop "for x, y in contour: shape.addPoint(QtCore.QPointF(x, y))" from its point k on
AddPoints(ring, k, pts, cl) ==
    IF k > Len(ring)
    THEN [shape_type |-> "polygon", points |-> pts, closed |-> cl]
    ELSE LET r == addPoint(pts, cl, ring[k])
         IN  AddPoints(ring, k + 1, r.points, r.closed)

TP_empty ==
    /\ cls = "MaskShape"
    /\ pc = "start"
    /\ Len(contours) = 0
    /\ pc' = "done"
    /\ ret' = shapes
    /\ last' = Call("toPolygons", <<>>)
    /\ UNCHANGED <<err, layout, contours, hierarchy, current_idx, child_current_idx, next_idx, contour, shapes, rings>>
    /\ UNCHANGED <<objVars, histVars, maskVars>>

TP_enter ==
    /\ cls = "MaskShape"
    /\ pc = "start"
    /\ Len(contours) # 0
    /\ current_idx' = 0
    /\ pc' = "while"
    /\ UNCHANGED <<layout, contours, hierarchy, child_current_idx, next_idx, contour, shapes, rings>>
    /\ UNCHANGED <<objVars, histVars, callVars, maskVars>>

TP_outer ==
    /\ cls = "MaskShape"
    /\ pc = "while"
    /\ current_idx # 0 - 1
    /\ next_idx' = hierarchy[current_idx + 1][1]
    /\ child_current_idx' = hierarchy[current_idx + 1][3]
    /\ contour' = CloseRing(Descale(contours[current_idx + 1].approx, scale))
    /\ pc' = "children"
    /\ UNCHANGED <<layout, contours, hierarchy, current_idx, shapes, rings>>
    /\ UNCHANGED <<objVars, histVars, callVars, maskVars>>

TP_child ==
    /\ cls = "MaskShape"
    /\ pc = "children"
    /\ child_current_idx # 0 - 1
    /\ LET child_next_idx == hierarchy[child_current_idx + 1][1]
           child_contour == contours[child_current_idx + 1]
       IN  /\ contour' =
                 IF HoleCounts(child_contour.raw, scale)
                 THEN Splice(contour, CloseRing(Descale(child_contour.approx, scale)))
                 ELSE contour
           /\ child_current_idx' = child_next_idx
    /\ UNCHANGED <<layout, contours, hierarchy, pc, current_idx, next_idx, shapes, rings>>
    /\ UNCHANGED <<objVars, histVars, callVars, maskVars>>

TP_emit ==
    /\ cls = "MaskShape"
    /\ pc = "children"
    /\ child_current_idx = 0 - 1
    /\ current_idx' = next_idx
    /\ IF Len(contour) < 5
       THEN UNCHANGED <<shapes, rings>>
       ELSE /\ shapes' = Append(shapes, AddPoints(contour, 1, <<>>, FALSE))
            /\ rings' = Append(rings, contour)
    /\ pc' = "while"
    /\ UNCHANGED <<layout, contours, hierarchy, child_current_idx, next_idx, contour>>
    /\ UNCHANGED <<objVars, histVars, callVars, maskVars>>

TP_return ==
    /\ cls = "MaskShape"
    /\ pc = "while"
    /\ current_idx = 0 - 1
    /\ pc' = "done"
    /\ ret' = shapes
    /\ last' = Call("toPolygons", <<>>)
    /\ UNCHANGED <<err, layout, contours, hierarchy, current_idx, child_current_idx, next_idx, contour, shapes, rings>>
    /\ UNCHANGED <<objVars, histVars, maskVars>>

----------------------------------------------------------------------------
(* Initial values of the parts a specification does not use *)

NoMask ==
    /\ mask = NoneV
    /\ scale = <<1, 1>>
    /\ rgba_mask = NoneV
    /\ everSet = FALSE

NoPoly ==
    /\ layout = <<>>
    /\ contours = <<>>
    /\ hierarchy = <<>>
    /\ pc = "idle"
    /\ current_idx = 0
    /\ child_current_idx = 0 - 1
    /\ next_idx = 0 - 1
    /\ contour = <<>>
    /\ shapes = <<>>
    /\ rings = <<>>

NoCall ==
    /\ err = ""
    /\ last = [op |-> "", arg |-> <<>>]
    /\ ret = NoneV

\* nothing constructed yet
NoObject(c) ==
    /\ cls = c
    /\ alive = FALSE
    /\ shape_type = ""
    /\ points = <<>>
    /\ labels = <<>>
    /\ closed = FALSE
    /\ hlIndex = NoneV
    /\ hlMode = NEAR_VERTEX
    /\ origin = <<>>
    /\ everRepeated = FALSE

----------------------------------------------------------------------------
(* Shape under every operation *)

InitShape == NoObject("Shape") /\ NoCall /\ NoMask /\ NoPoly

NextShape ==
    \/ \E v \in KindInputs : Shape_init(v)
    \/ \E v \in KindInputs : Shape_set_shape_type(v)
    \/ Shape_close
    \/ Shape_setOpen
    \/ \E p \in LinePoints : Shape_addPoint(p)
    \/ Shape_popPoint
    \/ \E i \in EdgeIdx \cup {1}, p \in LinePoints : Shape_insertPoint(i, p)
    \/ \E i \in IdxSet : Shape_removePoint(i)
    \/ \E o \in LineOffsets : Shape_moveBy(o)
    \/ \E i \in EdgeIdx, o \in LineOffsets : Shape_moveVertexBy(i, o)
    \/ \E a \in {MOVE_VERTEX, NEAR_VERTEX} : Shape_highlightVertex(0, a)
    \/ Shape_highlightClear

SpecShape == InitShape /\ [][NextShape]_vars

----------------------------------------------------------------------------
(* A fresh Shape under addPoint alone *)

\* the state Shape(shape_type=t) returns in
FreshShape(t) ==
    /\ cls = "Shape"
    /\ alive = TRUE
    /\ shape_type = t
    /\ points = <<>>
    /\ labels = <<>>
    /\ closed = FALSE
    /\ hlIndex = NoneV
    /\ hlMode = NEAR_VERTEX
    /\ origin = <<>>
    /\ everRepeated = FALSE

InitAdd ==
    /\ \E t \in ValidShapeTypes : FreshShape(t)
    /\ NoCall /\ NoMask /\ NoPoly

NextAdd == \E p \in PointSet : Shape_addPoint(p)

SpecAdd == InitAdd /\ [][NextAdd]_vars

----------------------------------------------------------------------------
(* MultipoinstShape under its mutating operations *)

\* the state MultipoinstShape() returns in
FreshMulti ==
    /\ cls = "MultipoinstShape"
    /\ alive = TRUE
    /\ shape_type = "multipoints"
    /\ points = <<>>
    /\ labels = <<>>
    /\ closed = FALSE
    /\ hlIndex = NoneV
    /\ hlMode = NEAR_VERTEX
    /\ origin = <<>>
    /\ everRepeated = FALSE

InitMulti == FreshMulti /\ NoCall /\ NoMask /\ NoPoly

NextMulti ==
    \/ \E p \in PointSet, b \in BOOLEAN : Multi_addPoint(p, b)
    \/ Multi_popPoint
    \/ \E i \in IdxSet : Multi_removePoint(i)
    \/ \E o \in OffsetSet : Multi_moveBy(o)
    \/ \E i \in EdgeIdx, o \in OffsetSet : Multi_moveVertexBy(i, o)

SpecMulti == InitMulti /\ [][NextMulti]_vars

----------------------------------------------------------------------------
(* Hit tests on shapes of both classes *)

InitNearest ==
    /\ FreshShape("polygon") \/ FreshMulti
    /\ NoCall /\ NoMask /\ NoPoly

NextNearest ==
    \/ \E p \in PointSet : Shape_addPoint(p)
    \/ \E p \in PointSet : Shape_insertPoint(0, p)
    \/ \E p \in PointSet : Multi_addPoint(p, TRUE)
    \/ \E o \in OffsetSet : Multi_moveVertexBy(0, o)
    \/ \E q \in Grid, e \in EpsSet : Shape_nearestVertex(q, e)
    \/ \E q \in Grid, e \in EpsSet : Multi_nearestVertex(q, e)

SpecNearest == InitNearest /\ [][NextNearest]_vars

----------------------------------------------------------------------------
(* MaskShape under setScaleMask and getQImageMask *)

MaskSet ==
    { <<(<<0>>)>>, <<(<<1>>)>>,
      <<(<<1, 1, 0>>)>>, <<(<<0, 1, 1>>)>>, <<(<<1, 1, 1>>)>>,
      <<(<<1, 0>>), (<<1, 1>>)>>, <<(<<1, 1>>), (<<0, 1>>)>>,
      <<(<<1, 1, 1>>), (<<1, 0, 1>>), (<<1, 1, 1>>)>>,
      <<(<<1, 1, 1>>), (<<1, 1, 1>>), (<<1, 1, 1>>)>>,
      <<(<<1, 1, 1, 1, 0, 0>>)>> }

\* the state MaskShape() returns in
FreshMask ==
    /\ mask = NoneV
    /\ scale = <<1, 1>>
    /\ rgba_mask = NoneV
    /\ everSet = FALSE

InitMask == NoObject("MaskShape") /\ NoCall /\ FreshMask /\ NoPoly

NextMask ==
    \/ \E sc \in ScaleSet, m \in MaskSet : MaskShape_setScaleMask(sc, m)
    \/ MaskShape_getQImageMask

SpecMask == InitMask /\ [][NextMask]_vars

----------------------------------------------------------------------------
(* MaskShape.toPolygons on the contours of a mask *)

\* toPolygons is entered on a mask that is set; the mask is given by the
\* contours cv2.findContours finds in it
InitPoly ==
    /\ NoObject("MaskShape") /\ NoCall
    /\ mask = NoneV /\ rgba_mask = NoneV /\ everSet = TRUE
    /\ scale \in ScaleSet
    /\ layout \in Layouts
    /\ hierarchy = HierarchyOf(layout)
    /\ \E o \in [1 .. Len(layout) -> OuterPool],
          h \in [1 .. StartOf(layout, Len(layout) + 1) - Len(layout) -> HolePool] :
          contours = [k \in 1 .. StartOf(layout, Len(layout) + 1) |->
                         LET j == OuterOf(layout, k - 1)
                         IN  IF k - 1 = StartOf(layout, j)
                             THEN o[j]
                             ELSE h[k - j]]
    /\ pc = "start"
    /\ current_idx = 0
    /\ child_current_idx = 0 - 1
    /\ next_idx = 0 - 1
    /\ contour = <<>>
    /\ shapes = <<>>
    /\ rings = <<>>

NextPoly ==
    \/ TP_empty
    \/ TP_enter
    \/ TP_outer
    \/ TP_child
    \/ TP_emit
    \/ TP_return

SpecPoly == InitPoly /\ [][NextPoly]_vars

----------------------------------------------------------------------------
(* Properties *)

SixKinds == {"polygon", "rectangle", "point", "line", "circle", "linestrip"}

\* s without its element at 1-based position j
Without(s, j) == [k \in 1 .. Len(s) - 1 |-> IF k < j THEN s[k] ELSE s[k + 1]]

\* the 1-based position a valid Python index i names in a list of length n
Pos(i, n) == IF i < 0 THEN i + n + 1 ELSE i + 1

ValidIndex(i, n) == 0 - n <= i /\ i < n

C1_Step ==
    /\ last'.op = "__init__" =>
          LET v == last'.arg[1]
          IN  IF v \in SixKinds
              THEN /\ err' = "" /\ alive' /\ shape_type' = v
                   /\ points' = <<>> /\ ~closed'
              ELSE IF v = PyNone
              THEN err' = "" /\ alive' /\ shape_type' = "polygon"
              ELSE err' = "ValueError" /\ ~alive'
    /\ last'.op = "shape_type" =>
          LET v == last'.arg[1]
          IN  IF v \in SixKinds
              THEN err' = "" /\ shape_type' = v
              ELSE IF v = PyNone
              THEN err' = "" /\ shape_type' = "polygon"
              ELSE err' = "ValueError" /\ UNCHANGED <<objVars, histVars>>

\* C1: Shape(shape_type=v) succeeds for each of the six kinds and raises
\* ValueError, constructing nothing, for any other string; assigning an invalid
\* value to shape_type raises ValueError and leaves the kind and every other
\* field of the shape as they were.
C1_KindValidation == [][C1_Step]_vars

\* C1 witness: the setter has just refused a value on a circle holding two points
C1_Witness ==
    /\ last.op = "shape_type" /\ err = "ValueError" /\ last.arg[1] = "Polygon"
    /\ shape_type = "circle" /\ Len(points) = 2 /\ closed

C2_Inv ==
    /\ \A k \in 2 .. Len(points) : points[k] # points[1]
    /\ closed <=> everRepeated

C2_Step ==
    last'.op = "addPoint" =>
        LET p == last'.arg[1]
        IN  IF points # <<>> /\ p = points[1]
            THEN closed' /\ points' = points
            ELSE points' = points \o <<p>> /\ closed' = closed

\* C2: addPoint(p) with points non-empty and p = points[0] sets closed and
\* leaves points unchanged; otherwise it appends p and leaves closed unchanged.
\* So on a fresh shape under addPoint alone no point at index >= 1 equals
\* points[0], and closed holds iff some call repeated the first point.
C2_AddPoint == []C2_Inv /\ [][C2_Step]_vars

\* C2 witness: the first point was repeated as the fourth addPoint of a polygon
C2_Witness ==
    /\ last.op = "addPoint" /\ Len(points) = 3 /\ last.arg[1] = points[1]
    /\ closed /\ shape_type = "polygon"

C3_Refused(n) ==
    \/ shape_type \in {"rectangle", "circle", "line", "point"}
    \/ shape_type = "polygon" /\ n <= 3
    \/ shape_type = "linestrip" /\ n <= 2

C3_Step ==
    last'.op = "removePoint" =>
        LET i == last'.arg[1]
            n == Len(points)
        IN  /\ UNCHANGED <<shape_type, closed, hlIndex, hlMode>>
            /\ IF C3_Refused(n)
               THEN err' = "" /\ points' = points
               ELSE ValidIndex(i, n) =>
                        err' = "" /\ points' = Without(points, Pos(i, n))
            /\ shape_type = "polygon" /\ n >= 3 => Len(points') >= 3
            /\ shape_type = "linestrip" /\ n >= 2 => Len(points') >= 2

\* C3: removePoint(i) raises nothing and changes nothing on a rectangle, circle,
\* line or point, on a polygon of at most 3 points and on a linestrip of at
\* most 2; otherwise, for a valid i, it removes exactly points[i] and keeps the
\* order of the rest.  It never takes a polygon below 3 points or a linestrip
\* below 2.
C3_RemovePoint == [][C3_Step]_vars

\* C3 witness: removePoint(1) has just taken a polygon from 4 points to 3
C3_Witness ==
    /\ last.op = "removePoint" /\ last.arg = <<1, 4>> /\ err = ""
    /\ shape_type = "polygon" /\ Len(points) = 3 /\ points[1] # points[2]

\* C4: in every reachable state a rectangle or circle holds at most 2 points.
C4_FixedArity ==
    alive /\ shape_type \in {"rectangle", "circle"} => Len(points) <= 2

C5_Inv ==
    /\ Len(points) = Len(labels)
    /\ labels = origin
    /\ ~closed

C5_Step ==
    last'.op = "addPoint" /\ points # <<>> /\ last'.arg[1] = points[1] =>
        points' = points /\ labels' = labels /\ closed' = closed

\* C5: on a MultipoinstShape under addPoint, popPoint, removePoint, moveBy and
\* moveVertexBy, len(points) = len(labels) and labels[i] is the flag the point
\* now at index i was added with; an addPoint of a point equal to points[0]
\* changes neither list and does not close the shape.
C5_LabelsAligned == []C5_Inv /\ [][C5_Step]_vars

\* C5 witness: a removal from the middle of three points with mixed flags
C5_Witness ==
    /\ last.op = "removePoint" /\ last.arg = <<1, 3>> /\ err = ""
    /\ labels = <<FALSE, TRUE>> /\ Len(points) = 2

C6_Step ==
    last'.op = "removePoint" =>
        LET i == last'.arg[1]
            n == Len(points)
        IN  /\ IF n <= 1
               THEN err' = "" /\ points' = points /\ labels' = labels
               ELSE ValidIndex(i, n) =>
                        /\ err' = ""
                        /\ points' = Without(points, Pos(i, n))
                        /\ labels' = Without(labels, Pos(i, n))
            /\ n >= 1 => Len(points') >= 1

\* C6: MultipoinstShape.removePoint(i) raises nothing and changes nothing when
\* the shape holds at most one point; with two or more points and a valid i it
\* removes points[i] and labels[i] together and keeps the order of the rest.
\* It never empties a shape.
C6_MultiRemovePoint == [][C6_Step]_vars

\* C6 witness: removePoint(0) on two points flagged [true, false] left [false]
C6_Witness ==
    /\ last.op = "removePoint" /\ last.arg = <<0, 2>> /\ err = ""
    /\ Len(points) = 1 /\ labels = <<FALSE>> /\ origin = <<FALSE>>

\* squared Euclidean distance between two points
SqDist(p, q) == (p[1] - q[1]) * (p[1] - q[1]) + (p[2] - q[2]) * (p[2] - q[2])

C7_Inv ==
    last.op = "nearestVertex" =>
        LET q == last.arg[1]
            e == last.arg[2]
            near == {k \in 1 .. Len(points) : e >= 0 /\ SqDist(points[k], q) <= e * e}
        IN  IF near = {}
            THEN ret = NoneV
            ELSE \E k \in near :
                    /\ ret = <<k - 1>>
                    /\ \A j \in 1 .. Len(points) :
                          /\ SqDist(points[k], q) <= SqDist(points[j], q)
                          /\ SqDist(points[j], q) = SqDist(points[k], q) => k <= j

C7_Step == last'.op = "nearestVertex" => UNCHANGED <<objVars, histVars>>

\* C7: nearestVertex(p, epsilon) of Shape and of MultipoinstShape returns None
\* when the shape is empty or every vertex is farther than epsilon from p;
\* otherwise it returns the lowest index among the vertices at the minimum
\* distance from p.  It never modifies the shape.
C7_NearestVertex == []C7_Inv /\ [][C7_Step]_vars

\* C7 witness: two vertices tie at the minimum distance and the first is returned
C7_Witness ==
    /\ last.op = "nearestVertex" /\ last.arg = <<(<<1, 1>>), 1>>
    /\ Len(points) = 3 /\ points[2] = <<1, 0>> /\ points[3] = <<0, 1>>
    /\ ret = <<1>>

\* whether pixel (y, x) of the mask, shown f times larger, lies in the mask
C8_In(m, f, y, x) == m[((y - 1) \div f) + 1][((x - 1) \div f) + 1] = 1

\* the overlay of mask m at scale 1/f: the mask's pixels coloured, those with a
\* pixel outside the mask within two rows and columns in the boundary colour
C8_Overlay(m, f) ==
    [y \in 1 .. Len(m) * f |->
        [x \in 1 .. Len(m[1]) * f |->
            IF ~C8_In(m, f, y, x)
            THEN <<0, 0, 0, 0>>
            ELSE IF \E v \in (y - 2) .. (y + 2), u \in (x - 2) .. (x + 2) :
                       /\ v >= 1 /\ v <= Len(m) * f
                       /\ u >= 1 /\ u <= Len(m[1]) * f
                       /\ ~C8_In(m, f, v, u)
                 THEN <<0, 0, 255, 128>>
                 ELSE <<0, 0, 255, 64>>]]

\* C8: after any sequence of setScaleMask and getQImageMask calls,
\* getQImageMask returns None iff no mask was ever set, and otherwise the
\* overlay of the mask and scale set last: as large as the mask scaled by
\* 1/scale, with no pixel of an earlier mask left in it.
C8_OverlayFresh ==
    last.op = "getQImageMask" =>
        /\ ret = NoneV <=> ~everSet
        /\ everSet =>
              /\ ret = C8_Overlay(mask, scale[2] \div scale[1])
              /\ Len(ret) = Len(mask) * (scale[2] \div scale[1])
              /\ Len(ret[1]) = Len(mask[1]) * (scale[2] \div scale[1])

\* C8 witness: an overlay drawn into a reused buffer, with fill, boundary and
\* clear pixels
C8_Witness ==
    /\ last.op = "getQImageMask" /\ last.arg = <<TRUE>>
    /\ mask = <<(<<1, 1, 0>>)>> /\ scale = <<1, 2>>
    /\ ret[1][1] = <<0, 0, 255, 64>>
    /\ ret[1][4] = <<0, 0, 255, 128>>
    /\ ret[2][6] = <<0, 0, 0, 0>>

\* a contour as toPolygons uses it: simplified, descaled and closed
C9_Closed(c) ==
    LET d == [k \in 1 .. Len(c.approx) |->
                <<(c.approx[k][1] * scale[2]) \div scale[1],
                  (c.approx[k][2] * scale[2]) \div scale[1]>>]
    IN  d \o <<d[1]>>

C9_Qualifies(c) == c.raw * scale[1] >= 10 * scale[2]

RECURSIVE C9_Ring(_, _)
\* the ring of an outer contour after the holes hs, in order
C9_Ring(ring, hs) ==
    IF hs = <<>>
    THEN ring
    ELSE C9_Ring(IF C9_Qualifies(hs[1])
                 THEN SubSeq(ring, 1, 2) \o C9_Closed(hs[1]) \o Tail(ring)
                 ELSE ring,
                 Tail(hs))

\* the holes of the outer contour being processed, in sibling order
C9_Holes ==
    LET j == CHOOSE n \in 1 .. Len(layout) : StartOf(layout, n) = current_idx
    IN  [k \in 1 .. layout[j] |-> contours[current_idx + 1 + k]]

C9_AtEnd == pc = "children" /\ child_current_idx = 0 - 1

\* C9: when the holes of an outer contour have all been visited, the ring is
\* the closed outer contour with each hole of at least 10/scale points
\* spliced in, in sibling order, as ring[0:2] + hole(closed) + ring[1:]: with
\* one such hole it is outer[0:2] + hole(closed) + outer[1:], with none it is
\* the closed outer contour.
C9_RingSplice ==
    C9_AtEnd =>
        LET outer == C9_Closed(contours[current_idx + 1])
            hs == C9_Holes
            q == {k \in 1 .. Len(hs) : C9_Qualifies(hs[k])}
        IN  /\ contour = C9_Ring(outer, hs)
            /\ q = {} => contour = outer
            /\ \A k \in q :
                  q = {k} => contour = SubSeq(outer, 1, 2) \o C9_Closed(hs[k]) \o Tail(outer)

\* C9 witness: an outer contour with a hole that is skipped and one that is spliced
C9_Witness ==
    /\ C9_AtEnd /\ scale = <<1, 2>> /\ Len(C9_Holes) = 2
    /\ ~C9_Qualifies(C9_Holes[1]) /\ C9_Qualifies(C9_Holes[2])
    /\ Len(contours[current_idx + 1].approx) = 4
    /\ Len(contour) = 10

\* C10: every shape toPolygons builds is closed, holds no point at index >= 1
\* equal to points[0], and holds fewer points than the ring of n >= 5 points
\* it was built from.
C10_ShapesClosed ==
    /\ Len(shapes) = Len(rings)
    /\ \A k \in 1 .. Len(shapes) :
          /\ shapes[k].closed
          /\ \A i \in 2 .. Len(shapes[k].points) : shapes[k].points[i] # shapes[k].points[1]
          /\ Len(rings[k]) >= 5
          /\ Len(shapes[k].points) <= Len(rings[k]) - 1
    /\ pc = "done" => ret = shapes

\* C10 witness: toPolygons has returned two shapes, one of them built from a
\* ring that met its first point again before its end
C10_Witness ==
    /\ pc = "done" /\ Len(ret) = 2
    /\ \E k \in 1 .. 2 : Len(ret[k].points) < Len(rings[k]) - 1

====
